---- MODULE Spec2Model ----
(***************************************************************************)
(* Appointments API (src/main.py): a FastAPI service over one MongoDB      *)
(* collection.  The collection is a set of documents, every handler is an  *)
(* action, and update_appointment, the one handler that makes two store    *)
(* round trips (update_one, then find_one), is two actions with the        *)
(* request in flight between them.                                         *)
(***************************************************************************)
EXTENDS Integers, Sequences, FiniteSets, TLC

\* ------------------------------------------------------------------ bounds
\* ObjectIds the store hands out before create is refused by the model.
MaxIds == 2
\* update_appointment requests between their update_one and their find_one.
MaxInFlight == 1
\* Hex digits in the string form of an ObjectId (24 in bson; scaled down).
IdLen == 2

\* ------------------------------------------------------------------ values
\* Python's None.
Null == "None"
\* A key the request's JSON body does not carry.
Omitted == "omitted"

Req1 == [name |-> "A", email |-> "a@x.com", service |-> "Consult",
         date |-> "2024-01-01", time |-> "10:00", topic |-> "Intro"]
Req2 == [name |-> "B", email |-> "b@x.com", service |-> "Review",
         date |-> "2024-02-02", time |-> "11:00", topic |-> "Follow"]
RequiredFields == {"name", "email", "service", "date", "time", "topic"}

Payload(r, status, zoom_link) ==
    [name |-> r.name, email |-> r.email, service |-> r.service,
     date |-> r.date, time |-> r.time, topic |-> r.topic,
     status |-> status, zoom_link |-> zoom_link]

\* The JSON bodies of the POST and PUT requests: two that carry the six
\* required fields only, one that also carries a status and a meeting link.
Payloads ==
    {Payload(Req1, Omitted, Omitted), Payload(Req2, Omitted, Omitted),
     Payload(Req1, "Approved", "z1")}

\* zoom_link values of PUT /appointments/{id}/zoom-link.
Links == {"z1"}

\* The model without its default for status: an omitted status becomes None.
AppointmentDictNullStatus(p) ==
    [p EXCEPT !.status = IF @ = Omitted THEN Null ELSE @,
              !.zoom_link = IF @ = Omitted THEN Null ELSE @]

\* AppointmentBase / AppointmentCreate, then .dict(): the declared defaults
\* fill the keys the body omits.
AppointmentDict(p) ==
    [p EXCEPT !.status = IF @ = Omitted THEN "Pending" ELSE @,
              !.zoom_link = IF @ = Omitted THEN Null ELSE @]

\* --------------------------------------------------------------- ObjectId
InvalidId == -1
HexDigits == 0 .. 15

RECURSIVE HexValue(_)
HexValue(s) ==
    IF s = <<>> THEN 0
    ELSE 16 * HexValue(SubSeq(s, 1, Len(s) - 1)) + s[Len(s)]

RECURSIVE Pow16(_)
Pow16(n) == IF n = 0 THEN 1 ELSE 16 * Pow16(n - 1)

\* A parse that does not check the length of the string.
ObjectIdLenient(s) ==
    IF \A i \in 1 .. Len(s) : s[i] \in HexDigits
    THEN HexValue(s)
    ELSE InvalidId

\* bson.ObjectId(str): the value of a well-formed hex string, InvalidId
\* (the exception) for any other string.
ObjectId(s) ==
    IF Len(s) = IdLen /\ \A i \in 1 .. Len(s) : s[i] \in HexDigits
    THEN HexValue(s)
    ELSE InvalidId

\* str(ObjectId): the fixed-width hex string.
Str(oid) == [i \in 1 .. IdLen |-> (oid \div Pow16(IdLen - i)) % 16]

\* The identifiers requests carry: those the store may hand out, and a
\* malformed one (a truncated identifier).
IdStrings == {Str(n) : n \in 1 .. MaxIds} \cup {<<1>>}

\* ------------------------------------------------------------- collection
WithId(doc, id) ==
    [_id |-> id, name |-> doc.name, email |-> doc.email,
     service |-> doc.service, date |-> doc.date, time |-> doc.time,
     topic |-> doc.topic, status |-> doc.status, zoom_link |-> doc.zoom_link]

\* A generator whose counter lags one insert behind.
NewObjectIdStale(S, n) == IF n = 0 THEN 1 ELSE n

\* The ObjectId the driver generates for the n+1st insert.
NewObjectId(S, n) == n + 1

Matching(S, oid) == {d \in S : d._id = oid}

InsertOne(S, doc, n) ==
    LET oid == NewObjectId(S, n)
    IN  [coll |-> S \cup {WithId(doc, oid)}, inserted_id |-> oid]

\* find_one: the matching document, or none ({} stands for None).
FindOne(S, oid) ==
    IF Matching(S, oid) = {} THEN {}
    ELSE {CHOOSE d \in Matching(S, oid) : TRUE}

\* A $set that skips the keys whose value is None.
ApplySetSkipNull(d, upd) ==
    [f \in DOMAIN d \cup DOMAIN upd |->
        IF f \in DOMAIN upd /\ (upd[f] # Null \/ f \notin DOMAIN d)
        THEN upd[f] ELSE d[f]]

\* $set: the keys of upd replace or extend those of d, the others stay.
ApplySet(d, upd) ==
    [f \in DOMAIN d \cup DOMAIN upd |-> IF f \in DOMAIN upd THEN upd[f] ELSE d[f]]

\* update_one with {"$set": upd}: modified_count is 0 when nothing matches
\* and when the matching document already has the values.
UpdateOne(S, oid, upd) ==
    IF Matching(S, oid) = {}
    THEN [coll |-> S, matched_count |-> 0, modified_count |-> 0]
    ELSE LET d  == CHOOSE d \in Matching(S, oid) : TRUE
             nd == ApplySet(d, upd)
         IN  [coll |-> (S \ {d}) \cup {nd}, matched_count |-> 1,
              modified_count |-> IF nd = d THEN 0 ELSE 1]

\* A delete that reports the document removed and keeps it.
DeleteOneSoft(S, oid) ==
    [coll |-> S, deleted_count |-> IF Matching(S, oid) = {} THEN 0 ELSE 1]

DeleteOne(S, oid) ==
    IF Matching(S, oid) = {}
    THEN [coll |-> S, deleted_count |-> 0]
    ELSE LET d == CHOOSE d \in Matching(S, oid) : TRUE
         IN  [coll |-> S \ {d}, deleted_count |-> 1]

\* A conversion that loses the meeting link.
DocumentToAppointmentNoLink(doc) ==
    WithId([doc EXCEPT !.zoom_link = Null], Str(doc._id))

\* document_to_appointment: the document with its _id as a string.
DocumentToAppointment(doc) == WithId(doc, Str(doc._id))

\* ------------------------------------------------------------------ state
VARIABLES
    store,     \* appointments_collection: a set of documents
    nextOid,   \* ObjectIds generated so far
    inflight,  \* update_appointment requests past update_one, before find_one
    deleted,   \* history: identifiers delete_appointment has removed
    last       \* history: the step taken last, and its response

vars == <<store, nextOid, inflight, deleted, last>>

OK == 200
NotFound == 404

\* One step: the handler, the path identifier, the body of a request that
\* reached the store's documents (a payload or none), the zoom_link
\* parameter, the response code (0: no response yet), the number of documents
\* the request modified or removed, the records returned.
Event(op, id, payload, link, code, modified, body) ==
    [op |-> op, id |-> id, payload |-> payload, link |-> link,
     code |-> code, modified |-> modified, body |-> body]

Init ==
    /\ store = {}
    /\ nextOid = 0
    /\ inflight = {}
    /\ deleted = {}
    /\ last = Event("start", <<>>, {}, "", 0, 0, {})

\* POST /appointments/
CreateAppointment(p) ==
    /\ nextOid < MaxIds
    /\ LET doc    == AppointmentDict(p)
           result == InsertOne(store, doc, nextOid)
       IN  /\ store' = result.coll
           /\ nextOid' = nextOid + 1
           /\ last' = Event("create", <<>>, {p}, "", OK, 0,
                            {WithId(doc, Str(result.inserted_id))})
    /\ UNCHANGED <<inflight, deleted>>

\* GET /appointments/
GetAppointments ==
    /\ last' = Event("list", <<>>, {}, "", OK, 0,
                     {DocumentToAppointment(d) : d \in store})
    /\ UNCHANGED <<store, nextOid, inflight, deleted>>

\* GET /appointments/{appointment_id}
GetAppointment(s) ==
    /\ LET oid == ObjectId(s)
           doc == FindOne(store, oid)
       IN  IF oid = InvalidId \/ doc = {}
           THEN last' = Event("get", s, {}, "", NotFound, 0, {})
           ELSE last' = Event("get", s, {}, "", OK, 0,
                              {DocumentToAppointment(d) : d \in doc})
    /\ UNCHANGED <<store, nextOid, inflight, deleted>>

\* An update_appointment request after its update_one: its arguments and
\* the modified_count the store reported to it.
Request(s, p, modified) == [id |-> s, payload |-> p, modified |-> modified]

\* PUT /appointments/{appointment_id}, to the end of update_one: the request
\* fails here on a malformed identifier or a zero modified_count, and else
\* goes on to its find_one.
UpdateAppointmentUpdateOne(s, p) ==
    LET oid    == ObjectId(s)
        doc    == AppointmentDict(p)
        result == UpdateOne(store, oid, doc)
    IN  IF oid = InvalidId \/ result.modified_count = 0
        THEN /\ last' = Event("update", s, {}, "", NotFound, 0, {})
             /\ UNCHANGED <<store, nextOid, inflight, deleted>>
        ELSE /\ Cardinality(inflight) < MaxInFlight
             /\ Request(s, p, result.modified_count) \notin inflight
             /\ store' = result.coll
             /\ inflight' = inflight \cup {Request(s, p, result.modified_count)}
             /\ last' = Event("update_one", s, {p}, "", 0,
                              result.modified_count, {})
             /\ UNCHANGED <<nextOid, deleted>>

\* PUT /appointments/{appointment_id}, from find_one on:
\* document_to_appointment(None) raises, and the bare except answers 404.
UpdateAppointmentFindOne(u) ==
    /\ u \in inflight
    /\ inflight' = inflight \ {u}
    /\ LET updated_doc == FindOne(store, ObjectId(u.id))
       IN  IF updated_doc = {}
           THEN last' = Event("update", u.id, {u.payload}, "", NotFound,
                              u.modified, {})
           ELSE last' = Event("update", u.id, {u.payload}, "", OK, u.modified,
                              {DocumentToAppointment(d) : d \in updated_doc})
    /\ UNCHANGED <<store, nextOid, deleted>>

\* DELETE /appointments/{appointment_id}
DeleteAppointment(s) ==
    LET oid    == ObjectId(s)
        result == DeleteOne(store, oid)
    IN  IF oid = InvalidId \/ result.deleted_count = 0
        THEN /\ last' = Event("delete", s, {}, "", NotFound, 0, {})
             /\ UNCHANGED <<store, nextOid, inflight, deleted>>
        ELSE /\ store' = result.coll
             /\ deleted' = deleted \cup {s}
             /\ last' = Event("delete", s, {}, "", OK, result.deleted_count, {})
             /\ UNCHANGED <<nextOid, inflight>>

\* An approval that also clears the meeting link.
ApproveSetClearsLink == [status |-> "Approved", zoom_link |-> Null]

\* The $set document of approve_appointment.
ApproveSet == [status |-> "Approved"]

\* PUT /appointments/{appointment_id}/approve
ApproveAppointment(s) ==
    LET oid    == ObjectId(s)
        result == UpdateOne(store, oid, ApproveSet)
    IN  IF oid = InvalidId \/ result.modified_count = 0
        THEN /\ last' = Event("approve", s, {}, "", NotFound, 0, {})
             /\ UNCHANGED <<store, nextOid, inflight, deleted>>
        ELSE /\ store' = result.coll
             /\ last' = Event("approve", s, {}, "", OK,
                              result.modified_count, {})
             /\ UNCHANGED <<nextOid, inflight, deleted>>

\* A link update that also resets the status.
ZoomLinkSetResetsStatus(zoom_link) ==
    [zoom_link |-> zoom_link, status |-> "Pending"]

\* The $set document of set_zoom_link.
ZoomLinkSet(zoom_link) == [zoom_link |-> zoom_link]

\* PUT /appointments/{appointment_id}/zoom-link
SetZoomLink(s, zoom_link) ==
    LET oid    == ObjectId(s)
        result == UpdateOne(store, oid, ZoomLinkSet(zoom_link))
    IN  IF oid = InvalidId \/ result.modified_count = 0
        THEN /\ last' = Event("zoom-link", s, {}, zoom_link, NotFound, 0, {})
             /\ UNCHANGED <<store, nextOid, inflight, deleted>>
        ELSE /\ store' = result.coll
             /\ last' = Event("zoom-link", s, {}, zoom_link, OK,
                              result.modified_count, {})
             /\ UNCHANGED <<nextOid, inflight, deleted>>

Next ==
    \/ \E p \in Payloads : CreateAppointment(p)
    \/ GetAppointments
    \/ \E s \in IdStrings : GetAppointment(s)
    \/ \E s \in IdStrings, p \in Payloads : UpdateAppointmentUpdateOne(s, p)
    \/ \E u \in inflight : UpdateAppointmentFindOne(u)
    \/ \E s \in IdStrings : DeleteAppointment(s)
    \/ \E s \in IdStrings : ApproveAppointment(s)
    \/ \E s \in IdStrings, z \in Links : SetZoomLink(s, z)

Spec == Init /\ [][Next]_vars

\* ----------------------------------------------------------------- claims
IdsOf(S) == {d._id : d \in S}
Stored(S, s) == {d \in S : Str(d._id) = s}
UniqueIds(S) == \A d1, d2 \in S : d1._id = d2._id => d1 = d2
OmitsBoth(p) == p.status = Omitted /\ p.zoom_link = Omitted

\* C1: a create whose payload carries the six required fields and omits
\* status and meeting link inserts exactly one new record and returns it
\* with status "Pending", zoom_link null, a non-empty identifier and the six
\* supplied fields unchanged.
C1_CreateDefaults ==
    [][(last'.op = "create" /\ \A p \in last'.payload : OmitsBoth(p)) =>
        /\ last'.code = OK
        /\ Cardinality(last'.body) = 1
        /\ Cardinality(store') = Cardinality(store) + 1
        /\ \E d \in store' \ store :
            /\ store' = store \cup {d}
            /\ last'.body = {WithId(d, Str(d._id))}
        /\ \A a \in last'.body, p \in last'.payload :
            /\ a.status = "Pending"
            /\ a.zoom_link = Null
            /\ Len(a._id) > 0
            /\ \A f \in RequiredFields : a[f] = p[f]]_vars

C1_Witness ==
    /\ last.op = "create"
    /\ last.code = OK
    /\ \E p \in last.payload : OmitsBoth(p)

\* C2: a get that directly follows a create, with the identifier the create
\* returned, succeeds and returns the identifier and the eight fields of the
\* create response.
C2_CreateThenGet ==
    [][(/\ last.op = "create"
        /\ last'.op = "get"
        /\ \E a \in last.body : a._id = last'.id) =>
            (last'.code = OK /\ last'.body = last.body)]_vars

\* A get has answered for the identifier created last, which is still stored
\* with a meeting link.
C2_Witness ==
    /\ last.op = "get"
    /\ last.code = OK
    /\ last.id = Str(nextOid)
    /\ \E a \in last.body : a.zoom_link = "z1"

\* C3: get_appointment answers NotFound for an identifier that is malformed
\* or matches no stored record, returns a record only when one with that
\* identifier is stored, and leaves the store as it is.
C3_GetNotFound ==
    [][last'.op = "get" =>
        /\ store' = store
        /\ last'.code \in {OK, NotFound}
        /\ last'.code = OK <=> Stored(store, last'.id) # {}
        /\ last'.code = OK =>
            /\ last'.body # {}
            /\ last'.body \subseteq
                 {WithId(d, last'.id) : d \in Stored(store, last'.id)}
        /\ last'.code = NotFound => last'.body = {}]_vars

\* A get of the malformed identifier was refused while its hex value is the
\* ObjectId of a stored record.
C3_Witness ==
    /\ last.op = "get"
    /\ last.code = NotFound
    /\ ObjectId(last.id) = InvalidId
    /\ HexValue(last.id) \in IdsOf(store)

\* C4 as claimed: the update_one of update_appointment (the only write of a
\* successful update) sets the fields the payload supplies, and a status or
\* a meeting link the payload omits keeps the value the record had.
C4_OnlySuppliedFields ==
    [][last'.op = "update_one" =>
        \A p \in last'.payload :
            \E d \in Stored(store, last'.id), nd \in Stored(store', last'.id) :
                /\ nd._id = d._id
                /\ \A f \in RequiredFields : nd[f] = p[f]
                /\ nd.status = IF p.status = Omitted THEN d.status ELSE p.status
                /\ nd.zoom_link =
                     IF p.zoom_link = Omitted THEN d.zoom_link ELSE p.zoom_link]_vars

\* C4 as amended: the update_one of update_appointment replaces all eight
\* fields of the record by the payload's, an omitted status becoming
\* "Pending" and an omitted meeting link null, keeps the identifier and
\* leaves every other record as it is.
C4_FullReplacement ==
    [][last'.op = "update_one" =>
        \A p \in last'.payload :
            \E d \in Stored(store, last'.id) :
                store' = (store \ {d}) \cup
                    {[_id |-> d._id, name |-> p.name, email |-> p.email,
                      service |-> p.service, date |-> p.date, time |-> p.time,
                      topic |-> p.topic,
                      status |-> IF p.status = Omitted THEN "Pending"
                                 ELSE p.status,
                      zoom_link |-> IF p.zoom_link = Omitted THEN Null
                                    ELSE p.zoom_link]}]_vars

\* An update that omits status and meeting link has written to a record,
\* beside another record.
C4_Witness ==
    /\ last.op = "update_one"
    /\ \E p \in last.payload : OmitsBoth(p)
    /\ Stored(store, last.id) # {}
    /\ Cardinality(store) > 1

\* C5: a successful approve sets the record's status to "Approved" and
\* leaves its identifier, its other fields and every other record unchanged.
C5_ApproveFrame ==
    [][(last'.op = "approve" /\ last'.code = OK) =>
        \E d \in Stored(store, last'.id) :
            store' = (store \ {d}) \cup {[d EXCEPT !.status = "Approved"]}]_vars

C5_Witness ==
    /\ last.op = "approve"
    /\ last.code = OK
    /\ Cardinality(store) > 1
    /\ \E d \in Stored(store, last.id) : d.zoom_link = "z1"

\* C6: a successful set_zoom_link sets the record's zoom_link to the string
\* the caller supplied and leaves its identifier, its status, its other
\* fields and every other record unchanged.
C6_ZoomLinkFrame ==
    [][(last'.op = "zoom-link" /\ last'.code = OK) =>
        \E d \in Stored(store, last'.id) :
            store' = (store \ {d}) \cup {[d EXCEPT !.zoom_link = last'.link]}]_vars

C6_Witness ==
    /\ last.op = "zoom-link"
    /\ last.code = OK
    /\ Cardinality(store) > 1
    /\ \E d \in Stored(store, last.id) : d.status = "Approved"

\* C7: once delete_appointment has succeeded for an identifier, no record
\* with that identifier is stored again, and every later get, update,
\* approve, set-link or delete on it answers NotFound.
C7_DeletedStaysDeleted ==
    [][/\ deleted \subseteq deleted'
       /\ \A s \in deleted' : Stored(store', s) = {}
       /\ last'.id \in deleted =>
            /\ last'.op # "update_one"
            /\ last'.op \in {"get", "update", "approve", "zoom-link", "delete"}
                 => last'.code = NotFound]_vars

\* A get of a deleted identifier was refused after every identifier of the
\* model was handed out, with a record stored.
C7_Witness ==
    /\ last.op = "get"
    /\ last.id \in deleted
    /\ last.code = NotFound
    /\ nextOid = MaxIds
    /\ store # {}

\* C8: no two stored records share an identifier, and update, approve and
\* set-link leave the identifiers of the stored records as they are.
C8_IdentifierUniqueImmutable ==
    [][/\ UniqueIds(store')
       /\ Cardinality(IdsOf(store')) = Cardinality(store')
       /\ last'.op \in {"update_one", "update", "approve", "zoom-link"} =>
            /\ IdsOf(store') = IdsOf(store)
            /\ Cardinality(store') = Cardinality(store)]_vars

\* An update, an approval or a link update has written to one of two or more
\* stored records.
C8_Witness ==
    /\ Cardinality(store) > 1
    /\ last.op \in {"update_one", "approve", "zoom-link"}
    /\ last.code # NotFound

\* C9: update, approve and set-link answer NotFound if and only if the store
\* reported zero modified documents to the request.
C9_NotFoundIffZeroModified ==
    last.op \in {"update", "approve", "zoom-link"} =>
        (last.code = NotFound <=> last.modified = 0)

\* C10: a request of update, delete, approve or set-link that answers
\* NotFound has made no change to the store, and a successful update
\* returns the field values of its own payload.
C10_Atomic ==
    /\ (last.op \in {"update", "delete", "approve", "zoom-link"}
            /\ last.code = NotFound) => last.modified = 0
    /\ (last.op = "update" /\ last.code = OK) =>
         \A a \in last.body, p \in last.payload :
            /\ a._id = last.id
            /\ WithId(a, 0) = WithId(AppointmentDict(p), 0)
====
